---- MODULE Spec2Model ----
(***************************************************************************)
(* The snuba tag store backend (sentry.tagstore.snuba.backend): every      *)
(* public operation of SnubaTagStorage builds one query descriptor, hands  *)
(* it to the analytic engine and maps the engine's reply to tag records,   *)
(* a not-found error, or an empty collection.                              *)
(*                                                                         *)
(* One action per public operation.  An operation is atomic: it runs from  *)
(* its invocation to its return or failure, the engine's reply being an    *)
(* input of the action.  The state is the record of the operation that ran *)
(* last: the call, the queries it issued, the engine's reply and what came *)
(* back to the caller.  The caller takes the outcome (Collect) before the  *)
(* next operation is invoked.  A caller that holds the mapping returned by *)
(* get_groups_user_counts may look keys up in it (Lookup): a lookup of a   *)
(* missing key changes the mapping, so the mapping is state; lookups holds *)
(* what each key looked up so far gave.                                    *)
(*                                                                         *)
(* The (start, end) window of get_time_range is left out of the query      *)
(* descriptor: no property below reads it.                                 *)
(***************************************************************************)
EXTENDS Integers, Sequences, FiniteSets, TLC

VARIABLES call, sent, reply, outcome, lookups

vars == <<call, sent, reply, outcome, lookups>>

\* ------------------------------------------------------------------ bounds

\* largest aggregate count (uniq, count()) the engine reports
MaxCount == 2
\* timestamps are 0..MaxTime
MaxTime == 1
\* most rows in one engine reply
MaxRows == 2
\* most event users in one call
MaxUsers == 2

\* ------------------------------------------------------------------ values

\* Python's None, an integer outside every id, count, timestamp and limit
None == -1

\* the limit __get_tag_keys takes when its caller passes none
DefaultKeysLimit == 1000
\* the limit get_top_group_tag_values takes when its caller passes none
DefaultTopLimit == 3
\* the limit of the two user operations when their caller passes none
DefaultUsersLimit == 100

SEEN_COLUMN == "timestamp"

ProjectIds == {1, 2}
EnvironmentIds == {1, 2}
GroupIds == {10, 11}
Keys == {"browser", "env"}
Values == {"prod", "dev"}
Versions == {"1.0", "2.0"}
EventIds == {"e1", "e2"}
UserIds == {"u1", "u2"}
\* limits a caller passes
Limits == {1, 5}
\* TagKeyStatus: VISIBLE is the default of the status argument
Statuses == {"VISIBLE", "PENDING_DELETION"}

Counts == 0..MaxCount
Times == 0..MaxTime

\* the lists of ids, versions and tag pairs a caller passes
ProjectIdLists == {<<1>>, <<1, 2>>}
GroupIdLists == {<<>>, <<10>>, <<11>>, <<10, 11>>}
VersionLists == {<<"1.0">>, <<"1.0", "2.0">>}
TagDicts ==
    {<<>>, <<[k |-> "browser", v |-> "prod"]>>,
     <<[k |-> "browser", v |-> "dev"], [k |-> "env", v |-> "prod"]>>}

\* event users: each identity field is a string, empty when unknown
EventUser(project_id, ident, email, username, ip_address) ==
    [project_id |-> project_id, ident |-> ident, email |-> email,
     username |-> username, ip_address |-> ip_address]

EventUsers ==
    {EventUser(1, "", "", "", ""),
     EventUser(1, "id1", "", "", ""),
     EventUser(2, "id2", "b@example.com", "bob", "10.0.0.2")}

\* an optional keyword argument: <<>> when the caller leaves it out
Optional(S) == {<<>>} \cup {<<x>> : x \in S}

\* the argument's value, or the signature's default
OrDefault(arg, default) == IF arg = <<>> THEN default ELSE arg[1]

Range(s) == {s[i] : i \in DOMAIN s}

SeqsUpTo(S, n) == UNION {[1..m -> S] : m \in 0..n}

\* [x for x in xs if x], for a list of strings
RECURSIVE Truthy(_)
Truthy(xs) ==
    IF xs = <<>> THEN <<>>
    ELSE (IF Head(xs) # "" THEN <<Head(xs)>> ELSE <<>>) \o Truthy(Tail(xs))

\* [cond for cond in conds if cond[2] != []]
RECURSIVE NonEmptyClauses(_)
NonEmptyClauses(conds) ==
    IF conds = <<>> THEN <<>>
    ELSE (IF Head(conds)[3] # <<>> THEN <<Head(conds)>> ELSE <<>>)
         \o NonEmptyClauses(Tail(conds))

\* 'tags[{}]'.format(key)
Tag(key) == "tags[" \o key \o "]"

\* ----------------------------------------------------------------- records

TagKey(data) == [type |-> "TagKey"] @@ data

GroupTagKey(group_id, data) == [type |-> "GroupTagKey", group_id |-> group_id] @@ data

TagValue(data) == [type |-> "TagValue"] @@ data

GroupTagValue(group_id, data) == [type |-> "GroupTagValue", group_id |-> group_id] @@ data

\* ObjectWrapper.__init__: the dictionary with id forced to 0
ObjectWrapper(dictionary) == [type |-> "ObjectWrapper", id |-> 0] @@ dictionary

Return(value) == [kind |-> "return", value |-> value]

Raise(exc) == [kind |-> "raise", exc |-> exc]

\* ------------------------------------------------------------------ engine

\* snuba.query(start, end, groupby, conditions, filters, aggregations, **kwargs):
\* the descriptor handed to the engine.  kwargs holds the keyword arguments the
\* call passes, limit and orderby, and is <<>> when it passes none
Query(groupby, conditions, filters, aggregations, kwargs) ==
    [groupby |-> groupby, conditions |-> conditions, filters |-> filters,
     aggregations |-> aggregations] @@ kwargs

Limited(q) == "limit" \in DOMAIN q /\ q.limit # None

Ordered(q) == "orderby" \in DOMAIN q

EngineError == [kind |-> "error"]

\* a scalar reply: the one aggregate of a query with no group-by
ScalarReplies == {[kind |-> "scalar", value |-> n] : n \in Counts}

\* count(), min(timestamp), max(timestamp) over the same rows
Aggregates(countName) ==
    {r \in [{countName, "first_seen", "last_seen"} -> Counts \cup Times] :
        /\ r[countName] \in Counts
        /\ r.first_seen \in Times /\ r.last_seen \in Times
        /\ r.first_seen <= r.last_seen
        /\ (r[countName] = 0 => r.last_seen = 0)}

\* the aggregates of a group: a group exists only if a row fell in it
GroupAggregates(countName) == {r \in Aggregates(countName) : r[countName] > 0}

\* the reply of a query with several aggregates and no group-by: nothing,
\* or one row of aggregates
RowReplies ==
    {[kind |-> "none"]} \cup {[kind |-> "row", row |-> r] : r \in Aggregates("times_seen")}

\* a grouped reply: an ordered mapping from group key to that group's value
Item(k, v) == [k |-> k, v |-> v]

Mappings(ks, vs) ==
    {s \in SeqsUpTo({Item(k, v) : k \in ks, v \in vs}, MaxRows) :
        \A i, j \in DOMAIN s : s[i].k = s[j].k => i = j}

KeyMappings == Mappings(Keys, Counts)
ValueMappings == Mappings(Values, GroupAggregates("times_seen"))
IssueMappings == Mappings(GroupIds, GroupAggregates("times_seen"))
IssueSeenMappings == Mappings(GroupIds, Times)
IssueCountMappings == Mappings(GroupIds, Counts)
ReleaseSeenMappings == Mappings(Versions, Times)
ReleaseMappings == Mappings(Versions, GroupAggregates("count"))
UserMappings == Mappings(UserIds, GroupAggregates("count"))
EventMappings == Mappings(EventIds, {0})

\* the value a row is ordered by: the raw aggregate when the query has one
\* aggregate, the named one of the row otherwise
OrderValue(q, v) ==
    IF Len(q.aggregations) = 1 THEN v
    ELSE CASE q.orderby = "-times_seen" -> v.times_seen
           [] q.orderby = "-last_seen" -> v.last_seen

Descending(orderby) == orderby \in {"-values_seen", "-times_seen", "-seen", "-last_seen"}

\* the engine keeps to the descriptor: no more rows than the limit, rows in
\* the order asked for, and only groups the issue filter lets through
Honours(q, rows) ==
    /\ Limited(q) => Len(rows) <= q.limit
    /\ Ordered(q) =>
          \A i, j \in DOMAIN rows : i < j =>
              IF Descending(q.orderby)
              THEN OrderValue(q, rows[i].v) >= OrderValue(q, rows[j].v)
              ELSE OrderValue(q, rows[i].v) <= OrderValue(q, rows[j].v)
    /\ (q.groupby = <<"issue">> /\ "issue" \in DOMAIN q.filters) =>
          \A i \in DOMAIN rows : rows[i].k \in Range(q.filters.issue)

GroupedReplies(q, mappings) ==
    {[kind |-> "rows", rows |-> rows] : rows \in {m \in mappings : Honours(q, m)}}

\* result.items(), result.keys()
Items(result) == result.rows

DictKeys(result) == [i \in DOMAIN result.rows |-> result.rows[i].k]

\* `not result`
Not(result) ==
    CASE result.kind = "none" -> TRUE
      [] result.kind = "scalar" -> result.value = 0
      [] result.kind = "row" -> FALSE
      [] result.kind = "rows" -> result.rows = <<>>

\* Call with the query sent again after an engine failure
CallRetrying(q, result, mapped) ==
    [sent |-> IF result = EngineError THEN <<q, q>> ELSE <<q>>,
     outcome |-> IF result = EngineError THEN Raise("SnubaError") ELSE mapped]

\* one run of an operation that calls snuba.query once: the query goes out,
\* an engine failure comes back to the caller as it is, anything else is mapped
Call(q, result, mapped) ==
    [sent |-> <<q>>,
     outcome |-> IF result = EngineError THEN Raise("SnubaError") ELSE mapped]

\* ------------------------------------------------------- private operations

\* ScopeFilters without the issue
ScopeFiltersNoIssue(project_id, group_id, environment_id) ==
    [project_id |-> <<project_id>>, environment |-> <<environment_id>>]

\* the filters every tag operation starts from, with the issue when scoped
ScopeFilters(project_id, group_id, environment_id) ==
    IF group_id # None
    THEN [project_id |-> <<project_id>>, environment |-> <<environment_id>>,
          issue |-> <<group_id>>]
    ELSE [project_id |-> <<project_id>>, environment |-> <<environment_id>>]

SeenAggregations ==
    << <<"count()", "", "times_seen">>,
       <<"min", SEEN_COLUMN, "first_seen">>,
       <<"max", SEEN_COLUMN, "last_seen">> >>

CountAggregations ==
    << <<"count()", "", "count">>,
       <<"min", SEEN_COLUMN, "first_seen">>,
       <<"max", SEEN_COLUMN, "last_seen">> >>

__get_tag_key_query(project_id, group_id, environment_id, key) ==
    Query(<<>>, << <<Tag(key), "!=", "">> >>,
          ScopeFilters(project_id, group_id, environment_id),
          << <<"uniq", Tag(key), "unique_values">> >>, <<>>)

\* __get_tag_key raising the project-scoped error whatever the scope
__get_tag_key_one_error(project_id, group_id, environment_id, key, result) ==
    Call(__get_tag_key_query(project_id, group_id, environment_id, key), result,
         IF result.value = 0
         THEN Raise("TagKeyNotFound")
         ELSE LET data == [key |-> key, values_seen |-> result.value]
              IN  Return(IF group_id = None THEN TagKey(data)
                         ELSE GroupTagKey(group_id, data)))

__get_tag_key(project_id, group_id, environment_id, key, result) ==
    Call(__get_tag_key_query(project_id, group_id, environment_id, key), result,
         IF result.value = 0
         THEN Raise(IF group_id = None THEN "TagKeyNotFound" ELSE "GroupTagKeyNotFound")
         ELSE LET data == [key |-> key, values_seen |-> result.value]
              IN  Return(IF group_id = None THEN TagKey(data)
                         ELSE GroupTagKey(group_id, data)))

\* limit: <<>> when the caller of __get_tag_keys passes no limit
__get_tag_keys_query(project_id, group_id, environment_id, limit) ==
    Query(<<"tags_key">>, <<>>,
          ScopeFilters(project_id, group_id, environment_id),
          << <<"uniq", "tags_value", "values_seen">> >>,
          [limit |-> OrDefault(limit, DefaultKeysLimit), orderby |-> "-values_seen"])

\* __get_tag_keys treating an empty reply as a missing key
__get_tag_keys_not_found(project_id, group_id, environment_id, limit, result) ==
    Call(__get_tag_keys_query(project_id, group_id, environment_id, limit), result,
         IF Not(result)
         THEN Raise(IF group_id = None THEN "TagKeyNotFound" ELSE "GroupTagKeyNotFound")
         ELSE LET kept == SelectSeq(Items(result), LAMBDA item : item.v # 0)
              IN  Return([i \in DOMAIN kept |->
                      LET data == [key |-> kept[i].k, values_seen |-> kept[i].v]
                      IN  IF group_id = None THEN TagKey(data)
                          ELSE GroupTagKey(group_id, data)]))

\* __get_tag_keys without the `if values_seen` of its comprehension
__get_tag_keys_keep_zero(project_id, group_id, environment_id, limit, result) ==
    Call(__get_tag_keys_query(project_id, group_id, environment_id, limit), result,
         Return([i \in DOMAIN Items(result) |->
             LET data == [key |-> Items(result)[i].k, values_seen |-> Items(result)[i].v]
             IN  IF group_id = None THEN TagKey(data)
                 ELSE GroupTagKey(group_id, data)]))

__get_tag_keys(project_id, group_id, environment_id, limit, result) ==
    Call(__get_tag_keys_query(project_id, group_id, environment_id, limit), result,
         LET kept == SelectSeq(Items(result), LAMBDA item : item.v # 0)
         IN  Return([i \in DOMAIN kept |->
                 LET data == [key |-> kept[i].k, values_seen |-> kept[i].v]
                 IN  IF group_id = None THEN TagKey(data)
                     ELSE GroupTagKey(group_id, data)]))

__get_tag_value_query(project_id, group_id, environment_id, key, value) ==
    Query(<<>>, << <<Tag(key), "=", value>> >>,
          ScopeFilters(project_id, group_id, environment_id),
          SeenAggregations, <<>>)

__get_tag_value(project_id, group_id, environment_id, key, value, data) ==
    Call(__get_tag_value_query(project_id, group_id, environment_id, key, value), data,
         IF Not(data)
         THEN Raise(IF group_id = None THEN "TagValueNotFound"
                    ELSE "GroupTagValueNotFound")
         ELSE LET updated == [key |-> key, value |-> value] @@ data.row
              IN  Return(IF group_id = None THEN TagKey(updated)
                         ELSE GroupTagKey(group_id, updated)))

__get_tag_values_query(project_id, group_id, environment_id, key) ==
    Query(<<Tag(key)>>, << <<Tag(key), "!=", "">> >>,
          ScopeFilters(project_id, group_id, environment_id),
          SeenAggregations, <<>>)

__get_tag_values(project_id, group_id, environment_id, key, result) ==
    Call(__get_tag_values_query(project_id, group_id, environment_id, key), result,
         Return([i \in DOMAIN Items(result) |->
             LET data == [key |-> key, value |-> Items(result)[i].k] @@ Items(result)[i].v
             IN  IF group_id = None THEN TagValue(data)
                 ELSE GroupTagValue(group_id, data)]))

\* ------------------------------------------- operations with their own query

get_group_list_tag_value_query(project_id, group_ids, environment_id, key, value) ==
    Query(<<"issue">>, << <<Tag(key), "=", value>> >>,
          [project_id |-> <<project_id>>, environment |-> <<environment_id>>,
           issue |-> group_ids],
          SeenAggregations, <<>>)

\* the value of key k in an ordered mapping
ValueOf(rows, k) == rows[CHOOSE i \in DOMAIN rows : rows[i].k = k].v

get_group_list_tag_value_run(project_id, group_ids, environment_id, key, value, result) ==
    Call(get_group_list_tag_value_query(project_id, group_ids, environment_id, key, value),
         result,
         Return([issue \in Range(DictKeys(result)) |->
             GroupTagValue(issue, [key |-> key, value |-> value]
                                  @@ ValueOf(Items(result), issue))]))

get_group_tag_value_count_query(project_id, group_id, environment_id, key) ==
    Query(<<>>, << <<Tag(key), "!=", "">> >>,
          [project_id |-> <<project_id>>, environment |-> <<environment_id>>,
           issue |-> <<group_id>>],
          << <<"count()", "", "count">> >>, <<>>)

get_group_tag_value_count_run(project_id, group_id, environment_id, key, result) ==
    Call(get_group_tag_value_count_query(project_id, group_id, environment_id, key),
         result, Return(result.value))

get_top_group_tag_values_query(project_id, group_id, environment_id, key, limit) ==
    Query(<<Tag(key)>>, << <<Tag(key), "!=", "">> >>,
          [project_id |-> <<project_id>>, environment |-> <<environment_id>>,
           issue |-> <<group_id>>],
          SeenAggregations,
          [limit |-> OrDefault(limit, DefaultTopLimit), orderby |-> "-times_seen"])

get_top_group_tag_values_run(project_id, group_id, environment_id, key, limit, result) ==
    Call(get_top_group_tag_values_query(project_id, group_id, environment_id, key, limit),
         result,
         Return([i \in DOMAIN Items(result) |->
             GroupTagValue(group_id, [key |-> key, value |-> Items(result)[i].k]
                                     @@ Items(result)[i].v)]))

get_release_query(project_id, group_id, first) ==
    Query(<<"release">>, << <<"release", "IS NOT NULL", None>> >>,
          IF group_id # None
          THEN [project_id |-> <<project_id>>, issue |-> <<group_id>>]
          ELSE [project_id |-> <<project_id>>],
          << <<IF first THEN "min" ELSE "max", SEEN_COLUMN, "seen">> >>,
          [limit |-> 1, orderby |-> IF first THEN "seen" ELSE "-seen"])

get_release_run(project_id, group_id, first, result) ==
    Call(get_release_query(project_id, group_id, first), result,
         IF Not(result) THEN Return(None) ELSE Return(DictKeys(result)[1]))

get_release_tags_query(project_ids, environment_id, versions) ==
    Query(<<"release">>, << <<"release", "IN", versions>> >>,
          [project_id |-> project_ids, environment |-> <<environment_id>>],
          CountAggregations, <<>>)

\* one labelled record per row of a count/min/max reply
Labelled(label, result) ==
    [i \in DOMAIN Items(result) |->
        ObjectWrapper([times_seen |-> Items(result)[i].v.count,
                       first_seen |-> Items(result)[i].v.first_seen,
                       last_seen |-> Items(result)[i].v.last_seen,
                       key |-> label,
                       value |-> Items(result)[i].k])]

get_release_tags_run(project_ids, environment_id, versions, result) ==
    Call(get_release_tags_query(project_ids, environment_id, versions), result,
         Return(Labelled("release", result)))

\* tags: the (tag, value) pairs of the dictionary, in its iteration order
get_group_event_ids_query(project_id, group_id, environment_id, tags) ==
    Query(<<"event_id">>,
          << [i \in DOMAIN tags |-> <<Tag(tags[i].k), "=", tags[i].v>>] >>,
          [environment |-> <<environment_id>>, project_id |-> <<project_id>>],
          None, <<>>)

get_group_event_ids_run(project_id, group_id, environment_id, tags, result) ==
    Call(get_group_event_ids_query(project_id, group_id, environment_id, tags), result,
         Return(DictKeys(result)))

\* the OR-group of the two user operations: one IN clause per identity field,
\* the clauses with an empty list left out
UserOrConditions(event_users) ==
    NonEmptyClauses(<<
        <<"user_id", "IN", Truthy([i \in DOMAIN event_users |-> event_users[i].ident])>>,
        <<"email", "IN", Truthy([i \in DOMAIN event_users |-> event_users[i].email])>>,
        <<"username", "IN", Truthy([i \in DOMAIN event_users |-> event_users[i].username])>>,
        <<"ip_address", "IN", Truthy([i \in DOMAIN event_users |-> event_users[i].ip_address])>>
    >>)

get_group_ids_for_users_query(project_ids, event_users, limit) ==
    Query(<<"issue">>, <<UserOrConditions(event_users)>>,
          [project_id |-> project_ids],
          << <<"max", SEEN_COLUMN, "seen">> >>,
          [limit |-> OrDefault(limit, DefaultUsersLimit), orderby |-> "-seen"])

get_group_ids_for_users_run(project_ids, event_users, limit, result) ==
    Call(get_group_ids_for_users_query(project_ids, event_users, limit), result,
         Return(DictKeys(result)))

get_group_tag_values_for_users_query(event_users, limit) ==
    Query(<<"user_id">>, <<UserOrConditions(event_users)>>,
          [project_id |-> [i \in DOMAIN event_users |-> event_users[i].project_id]],
          CountAggregations,
          [orderby |-> "-last_seen", limit |-> OrDefault(limit, DefaultUsersLimit)])

get_group_tag_values_for_users_run(event_users, limit, result) ==
    Call(get_group_tag_values_for_users_query(event_users, limit), result,
         Return(Labelled("sentry:user", result)))

get_groups_user_counts_query(project_id, group_ids, environment_id) ==
    Query(<<"issue">>, None,
          [project_id |-> <<project_id>>, environment |-> <<environment_id>>,
           issue |-> group_ids],
          << <<"uniq", "user_id", "count">> >>, <<>>)

\* dict(items): a mapping with no default
PlainDict(items) ==
    [type |-> "dict", default |-> 0,
     items |-> [k \in {items[i].k : i \in DOMAIN items} |-> ValueOf(items, k)]]

\* defaultdict(int, items): the items, and int() = 0 for a key that is looked
\* up and is not among them
DefaultDictInt(items) ==
    [type |-> "defaultdict", default |-> 0,
     items |-> [k \in {items[i].k : i \in DOMAIN items} |-> ValueOf(items, k)]]

\* mapping[k]: what the caller gets, and the mapping afterwards.  A key that is
\* missing from a defaultdict is inserted with the default (__missing__), so
\* the lookup changes the mapping; a plain dict raises KeyError and stays
MappingGet(d, k) ==
    IF k \in DOMAIN d.items THEN [result |-> Return(d.items[k]), mapping |-> d]
    ELSE IF d.type = "defaultdict"
    THEN [result |-> Return(d.default),
          mapping |-> [d EXCEPT !.items =
                          [j \in DOMAIN d.items \cup {k} |->
                              IF j = k THEN d.default ELSE d.items[j]]]]
    ELSE [result |-> Raise("KeyError"), mapping |-> d]

\* the keys of a returned mapping, when it is enumerated
MappingKeys(d) == DOMAIN d.items

get_groups_user_counts_run(project_id, group_ids, environment_id, result) ==
    Call(get_groups_user_counts_query(project_id, group_ids, environment_id), result,
         Return(DefaultDictInt(Items(result))))

get_group_ids_for_search_filter_run(project_id, environment_id, tags) ==
    [sent |-> <<>>, outcome |-> Raise("NotImplementedError")]

\* `assert status is TagKeyStatus.VISIBLE` before anything else
AssertVisible(status, run) ==
    IF OrDefault(status, "VISIBLE") = "VISIBLE" THEN run
    ELSE [sent |-> <<>>, outcome |-> Raise("AssertionError")]

\* ------------------------------------------------------- public operations

Idle == outcome.kind = "none"

\* the engine's reply to the operation, when the operation asked the engine
Reply(run, result) == IF run.sent = <<>> THEN [kind |-> "unasked"] ELSE result

get_tag_key(project_id, environment_id, key, status) ==
    /\ Idle
    /\ \E result \in {EngineError} \cup
          ScalarReplies :
        LET run == AssertVisible(status,
                       __get_tag_key(project_id, None, environment_id, key, result))
        IN  /\ call' = [op |-> "get_tag_key", project_id |-> project_id,
                     environment_id |-> environment_id, key |-> key,
                     status |-> status]
            /\ reply' = Reply(run, result)
            /\ sent' = run.sent
            /\ outcome' = run.outcome
            /\ lookups' = <<>>

get_tag_keys(project_id, environment_id, status) ==
    /\ Idle
    /\ \E result \in {EngineError} \cup
          GroupedReplies(__get_tag_keys_query(project_id, None, environment_id, <<>>),
                         KeyMappings) :
        LET run == AssertVisible(status,
                       __get_tag_keys(project_id, None, environment_id, <<>>, result))
        IN  /\ call' = [op |-> "get_tag_keys", project_id |-> project_id,
                     environment_id |-> environment_id, status |-> status]
            /\ reply' = Reply(run, result)
            /\ sent' = run.sent
            /\ outcome' = run.outcome
            /\ lookups' = <<>>

get_tag_value(project_id, environment_id, key, value) ==
    /\ Idle
    /\ \E result \in {EngineError} \cup
          RowReplies :
        LET run == __get_tag_value(project_id, None, environment_id, key, value, result)
        IN  /\ call' = [op |-> "get_tag_value", project_id |-> project_id,
                     environment_id |-> environment_id, key |-> key,
                     value |-> value]
            /\ reply' = Reply(run, result)
            /\ sent' = run.sent
            /\ outcome' = run.outcome
            /\ lookups' = <<>>

get_tag_values(project_id, environment_id, key) ==
    /\ Idle
    /\ \E result \in {EngineError} \cup
          GroupedReplies(__get_tag_values_query(project_id, None, environment_id, key), ValueMappings) :
        LET run == __get_tag_values(project_id, None, environment_id, key, result)
        IN  /\ call' = [op |-> "get_tag_values", project_id |-> project_id,
                     environment_id |-> environment_id, key |-> key]
            /\ reply' = Reply(run, result)
            /\ sent' = run.sent
            /\ outcome' = run.outcome
            /\ lookups' = <<>>

get_group_tag_key(project_id, group_id, environment_id, key) ==
    /\ Idle
    /\ \E result \in {EngineError} \cup
          ScalarReplies :
        LET run == __get_tag_key(project_id, group_id, environment_id, key, result)
        IN  /\ call' = [op |-> "get_group_tag_key", project_id |-> project_id,
                     group_id |-> group_id, environment_id |-> environment_id,
                     key |-> key]
            /\ reply' = Reply(run, result)
            /\ sent' = run.sent
            /\ outcome' = run.outcome
            /\ lookups' = <<>>

get_group_tag_keys(project_id, group_id, environment_id, limit) ==
    /\ Idle
    /\ \E result \in {EngineError} \cup
          GroupedReplies(__get_tag_keys_query(project_id, group_id, environment_id,
                              <<OrDefault(limit, None)>>), KeyMappings) :
        LET run == __get_tag_keys(project_id, group_id, environment_id,
                              <<OrDefault(limit, None)>>, result)
        IN  /\ call' = [op |-> "get_group_tag_keys", project_id |-> project_id,
                     group_id |-> group_id, environment_id |-> environment_id,
                     limit |-> limit]
            /\ reply' = Reply(run, result)
            /\ sent' = run.sent
            /\ outcome' = run.outcome
            /\ lookups' = <<>>

get_group_tag_value(project_id, group_id, environment_id, key, value) ==
    /\ Idle
    /\ \E result \in {EngineError} \cup
          RowReplies :
        LET run == __get_tag_value(project_id, group_id, environment_id, key, value, result)
        IN  /\ call' = [op |-> "get_group_tag_value", project_id |-> project_id,
                     group_id |-> group_id, environment_id |-> environment_id,
                     key |-> key, value |-> value]
            /\ reply' = Reply(run, result)
            /\ sent' = run.sent
            /\ outcome' = run.outcome
            /\ lookups' = <<>>

get_group_tag_values(project_id, group_id, environment_id, key) ==
    /\ Idle
    /\ \E result \in {EngineError} \cup
          GroupedReplies(__get_tag_values_query(project_id, group_id, environment_id, key),
                       ValueMappings) :
        LET run == __get_tag_values(project_id, group_id, environment_id, key, result)
        IN  /\ call' = [op |-> "get_group_tag_values", project_id |-> project_id,
                     group_id |-> group_id, environment_id |-> environment_id,
                     key |-> key]
            /\ reply' = Reply(run, result)
            /\ sent' = run.sent
            /\ outcome' = run.outcome
            /\ lookups' = <<>>

get_group_list_tag_value(project_id, group_ids, environment_id, key, value) ==
    /\ Idle
    /\ \E result \in {EngineError} \cup
          GroupedReplies(get_group_list_tag_value_query(project_id, group_ids, environment_id,
                                                      key, value), IssueMappings) :
        LET run == get_group_list_tag_value_run(project_id, group_ids, environment_id, key, value,
                                            result)
        IN  /\ call' = [op |-> "get_group_list_tag_value", project_id |-> project_id,
                     group_ids |-> group_ids, environment_id |-> environment_id,
                     key |-> key, value |-> value]
            /\ reply' = Reply(run, result)
            /\ sent' = run.sent
            /\ outcome' = run.outcome
            /\ lookups' = <<>>

get_group_tag_value_count(project_id, group_id, environment_id, key) ==
    /\ Idle
    /\ \E result \in {EngineError} \cup
          ScalarReplies :
        LET run == get_group_tag_value_count_run(project_id, group_id, environment_id, key, result)
        IN  /\ call' = [op |-> "get_group_tag_value_count", project_id |-> project_id,
                     group_id |-> group_id, environment_id |-> environment_id,
                     key |-> key]
            /\ reply' = Reply(run, result)
            /\ sent' = run.sent
            /\ outcome' = run.outcome
            /\ lookups' = <<>>

get_top_group_tag_values(project_id, group_id, environment_id, key, limit) ==
    /\ Idle
    /\ \E result \in {EngineError} \cup
          GroupedReplies(get_top_group_tag_values_query(project_id, group_id, environment_id,
                                                      key, limit), ValueMappings) :
        LET run == get_top_group_tag_values_run(project_id, group_id, environment_id, key, limit,
                                            result)
        IN  /\ call' = [op |-> "get_top_group_tag_values", project_id |-> project_id,
                     group_id |-> group_id, environment_id |-> environment_id,
                     key |-> key, limit |-> limit]
            /\ reply' = Reply(run, result)
            /\ sent' = run.sent
            /\ outcome' = run.outcome
            /\ lookups' = <<>>

get_release(project_id, group_id, first) ==
    /\ Idle
    /\ \E result \in {EngineError} \cup
          GroupedReplies(get_release_query(project_id, group_id, OrDefault(first, TRUE)),
                       ReleaseSeenMappings) :
        LET run == get_release_run(project_id, group_id, OrDefault(first, TRUE), result)
        IN  /\ call' = [op |-> "get_release", project_id |-> project_id,
                     group_id |-> group_id, first |-> first]
            /\ reply' = Reply(run, result)
            /\ sent' = run.sent
            /\ outcome' = run.outcome
            /\ lookups' = <<>>

get_first_release(project_id, group_id) ==
    /\ Idle
    /\ \E result \in {EngineError} \cup
          GroupedReplies(get_release_query(project_id, group_id, TRUE), ReleaseSeenMappings) :
        LET run == get_release_run(project_id, group_id, TRUE, result)
        IN  /\ call' = [op |-> "get_first_release", project_id |-> project_id,
                     group_id |-> group_id]
            /\ reply' = Reply(run, result)
            /\ sent' = run.sent
            /\ outcome' = run.outcome
            /\ lookups' = <<>>

get_last_release(project_id, group_id) ==
    /\ Idle
    /\ \E result \in {EngineError} \cup
          GroupedReplies(get_release_query(project_id, group_id, FALSE), ReleaseSeenMappings) :
        LET run == get_release_run(project_id, group_id, FALSE, result)
        IN  /\ call' = [op |-> "get_last_release", project_id |-> project_id,
                     group_id |-> group_id]
            /\ reply' = Reply(run, result)
            /\ sent' = run.sent
            /\ outcome' = run.outcome
            /\ lookups' = <<>>

get_release_tags(project_ids, environment_id, versions) ==
    /\ Idle
    /\ \E result \in {EngineError} \cup
          GroupedReplies(get_release_tags_query(project_ids, environment_id, versions),
                       ReleaseMappings) :
        LET run == get_release_tags_run(project_ids, environment_id, versions, result)
        IN  /\ call' = [op |-> "get_release_tags", project_ids |-> project_ids,
                     environment_id |-> environment_id, versions |-> versions]
            /\ reply' = Reply(run, result)
            /\ sent' = run.sent
            /\ outcome' = run.outcome
            /\ lookups' = <<>>

get_group_event_ids(project_id, group_id, environment_id, tags) ==
    /\ Idle
    /\ \E result \in {EngineError} \cup
          GroupedReplies(get_group_event_ids_query(project_id, group_id, environment_id, tags),
                       EventMappings) :
        LET run == get_group_event_ids_run(project_id, group_id, environment_id, tags, result)
        IN  /\ call' = [op |-> "get_group_event_ids", project_id |-> project_id,
                     group_id |-> group_id, environment_id |-> environment_id,
                     tags |-> tags]
            /\ reply' = Reply(run, result)
            /\ sent' = run.sent
            /\ outcome' = run.outcome
            /\ lookups' = <<>>

get_group_ids_for_users(project_ids, event_users, limit) ==
    /\ Idle
    /\ \E result \in {EngineError} \cup
          GroupedReplies(get_group_ids_for_users_query(project_ids, event_users, limit),
                       IssueSeenMappings) :
        LET run == get_group_ids_for_users_run(project_ids, event_users, limit, result)
        IN  /\ call' = [op |-> "get_group_ids_for_users", project_ids |-> project_ids,
                     event_users |-> event_users, limit |-> limit]
            /\ reply' = Reply(run, result)
            /\ sent' = run.sent
            /\ outcome' = run.outcome
            /\ lookups' = <<>>

get_group_tag_values_for_users(event_users, limit) ==
    /\ Idle
    /\ \E result \in {EngineError} \cup
          GroupedReplies(get_group_tag_values_for_users_query(event_users, limit), UserMappings) :
        LET run == get_group_tag_values_for_users_run(event_users, limit, result)
        IN  /\ call' = [op |-> "get_group_tag_values_for_users",
                     event_users |-> event_users, limit |-> limit]
            /\ reply' = Reply(run, result)
            /\ sent' = run.sent
            /\ outcome' = run.outcome
            /\ lookups' = <<>>

get_groups_user_counts(project_id, group_ids, environment_id) ==
    /\ Idle
    /\ \E result \in {EngineError} \cup
          GroupedReplies(get_groups_user_counts_query(project_id, group_ids, environment_id),
                       IssueCountMappings) :
        LET run == get_groups_user_counts_run(project_id, group_ids, environment_id, result)
        IN  /\ call' = [op |-> "get_groups_user_counts", project_id |-> project_id,
                     group_ids |-> group_ids, environment_id |-> environment_id]
            /\ reply' = Reply(run, result)
            /\ sent' = run.sent
            /\ outcome' = run.outcome
            /\ lookups' = <<>>

get_group_ids_for_search_filter(project_id, environment_id, tags) ==
    LET run == get_group_ids_for_search_filter_run(project_id, environment_id, tags)
    IN  /\ Idle
        /\ call' = [op |-> "get_group_ids_for_search_filter", project_id |-> project_id,
                     environment_id |-> environment_id, tags |-> tags]
        /\ reply' = [kind |-> "unasked"]
        /\ sent' = run.sent
        /\ outcome' = run.outcome
        /\ lookups' = <<>>

\* the caller looks issue up in the mapping get_groups_user_counts returned
Lookup(issue) ==
    /\ call.op = "get_groups_user_counts"
    /\ outcome.kind = "return"
    /\ LET got == MappingGet(outcome.value, issue)
       IN  /\ outcome' = Return(got.mapping)
           /\ lookups' = [k \in DOMAIN lookups \cup {issue} |->
                             IF k = issue THEN got.result ELSE lookups[k]]
    /\ UNCHANGED <<call, sent, reply>>

\* the caller takes the outcome of the operation
Collect ==
    /\ ~Idle
    /\ call' = [op |-> "none"]
    /\ sent' = <<>>
    /\ reply' = [kind |-> "unasked"]
    /\ outcome' = [kind |-> "none"]
    /\ lookups' = <<>>

Init ==
    /\ call = [op |-> "none"]
    /\ sent = <<>>
    /\ reply = [kind |-> "unasked"]
    /\ outcome = [kind |-> "none"]
    /\ lookups = <<>>

Next ==
    \/ \E project_id \in ProjectIds, environment_id \in EnvironmentIds,
          key \in Keys, status \in Optional(Statuses) :
          get_tag_key(project_id, environment_id, key, status)
    \/ \E project_id \in ProjectIds,
          environment_id \in EnvironmentIds, status \in Optional(Statuses) :
          get_tag_keys(project_id, environment_id, status)
    \/ \E project_id \in ProjectIds, environment_id \in EnvironmentIds,
          key \in Keys, value \in Values :
          get_tag_value(project_id, environment_id, key, value)
    \/ \E project_id \in ProjectIds,
          environment_id \in EnvironmentIds, key \in Keys :
          get_tag_values(project_id, environment_id, key)
    \/ \E project_id \in ProjectIds, group_id \in GroupIds,
          environment_id \in EnvironmentIds, key \in Keys :
          get_group_tag_key(project_id, group_id, environment_id, key)
    \/ \E project_id \in ProjectIds, group_id \in GroupIds,
          environment_id \in EnvironmentIds, limit \in Optional(Limits) :
          get_group_tag_keys(project_id, group_id, environment_id, limit)
    \/ \E project_id \in ProjectIds, group_id \in GroupIds,
          environment_id \in EnvironmentIds, key \in Keys, value \in Values :
          get_group_tag_value(project_id, group_id, environment_id, key, value)
    \/ \E project_id \in ProjectIds, group_id \in GroupIds,
          environment_id \in EnvironmentIds, key \in Keys :
          get_group_tag_values(project_id, group_id, environment_id, key)
    \/ \E project_id \in ProjectIds, group_ids \in GroupIdLists,
          environment_id \in EnvironmentIds, key \in Keys, value \in Values :
          get_group_list_tag_value(project_id, group_ids, environment_id, key, value)
    \/ \E project_id \in ProjectIds, group_id \in GroupIds,
          environment_id \in EnvironmentIds, key \in Keys :
          get_group_tag_value_count(project_id, group_id, environment_id, key)
    \/ \E project_id \in ProjectIds, group_id \in GroupIds,
          environment_id \in EnvironmentIds, key \in Keys, limit \in Optional(Limits) :
          get_top_group_tag_values(project_id, group_id, environment_id, key, limit)
    \/ \E project_id \in ProjectIds,
          group_id \in GroupIds \cup {None}, first \in Optional(BOOLEAN) :
          get_release(project_id, group_id, first)
    \/ \E project_id \in ProjectIds, group_id \in GroupIds \cup {None} :
          get_first_release(project_id, group_id)
    \/ \E project_id \in ProjectIds, group_id \in GroupIds \cup {None} :
          get_last_release(project_id, group_id)
    \/ \E project_ids \in ProjectIdLists,
          environment_id \in EnvironmentIds, versions \in VersionLists :
          get_release_tags(project_ids, environment_id, versions)
    \/ \E project_id \in ProjectIds, group_id \in GroupIds,
          environment_id \in EnvironmentIds, tags \in TagDicts :
          get_group_event_ids(project_id, group_id, environment_id, tags)
    \/ \E project_ids \in ProjectIdLists,
          event_users \in SeqsUpTo(EventUsers, MaxUsers), limit \in Optional(Limits) :
          get_group_ids_for_users(project_ids, event_users, limit)
    \/ \E event_users \in SeqsUpTo(EventUsers, MaxUsers),
          limit \in Optional(Limits) :
          get_group_tag_values_for_users(event_users, limit)
    \/ \E project_id \in ProjectIds,
          group_ids \in GroupIdLists, environment_id \in EnvironmentIds :
          get_groups_user_counts(project_id, group_ids, environment_id)
    \/ \E project_id \in ProjectIds, environment_id \in EnvironmentIds, tags \in TagDicts :
          get_group_ids_for_search_filter(project_id, environment_id, tags)
    \/ \E issue \in GroupIds : Lookup(issue)
    \/ Collect

Spec == Init /\ [][Next]_vars

\* --------------------------------------------------------------- properties

KeyLookups == {"get_tag_key", "get_group_tag_key"}
KeyListings == {"get_tag_keys", "get_group_tag_keys"}
ValueLookups == {"get_tag_value", "get_group_tag_value"}
ValueListings == {"get_tag_values", "get_group_tag_values", "get_top_group_tag_values"}
IssueScoped ==
    {"get_group_tag_key", "get_group_tag_keys", "get_group_tag_value",
     "get_group_tag_values", "get_top_group_tag_values"}
Listings ==
    KeyListings \cup ValueListings \cup {"get_group_list_tag_value", "get_release_tags"}
UserOperations == {"get_group_ids_for_users", "get_group_tag_values_for_users"}
NotFoundErrors ==
    {"TagKeyNotFound", "GroupTagKeyNotFound", "TagValueNotFound", "GroupTagValueNotFound"}

Returned == outcome.kind = "return"

\* the records of a returned list
Records == Range(outcome.value)

\* C1: a single key lookup whose uniq result is 0 raises TagKeyNotFound
\* (no issue) or GroupTagKeyNotFound (issue) and returns nothing; a result
\* n > 0 returns a TagKey or, with group_id the issue passed, a GroupTagKey,
\* with the requested key and values_seen = n.
C1_SingleKeyLookup ==
    (call.op \in KeyLookups /\ reply.kind = "scalar") =>
        IF reply.value = 0
        THEN outcome = Raise(IF call.op = "get_tag_key" THEN "TagKeyNotFound"
                             ELSE "GroupTagKeyNotFound")
        ELSE outcome = Return(
                 IF call.op = "get_tag_key"
                 THEN [type |-> "TagKey", key |-> call.key, values_seen |-> reply.value]
                 ELSE [type |-> "GroupTagKey", group_id |-> call.group_id,
                       key |-> call.key, values_seen |-> reply.value])

\* an issue-scoped key lookup that found no value and raised
C1_Witness ==
    /\ call.op = "get_group_tag_key"
    /\ reply.kind = "scalar" /\ reply.value = 0
    /\ outcome = Raise("GroupTagKeyNotFound")

\* C2: a single value lookup whose tag value has no matching rows (the reply is
\* empty, or a row of aggregates with times_seen = 0) raises TagValueNotFound
\* (no issue) or GroupTagValueNotFound (issue) and returns no record.
C2_ValueLookupNotFound ==
    (/\ call.op \in ValueLookups
     /\ \/ reply.kind = "none"
        \/ reply.kind = "row" /\ reply.row.times_seen = 0) =>
        outcome = Raise(IF call.op = "get_tag_value" THEN "TagValueNotFound"
                        ELSE "GroupTagValueNotFound")

\* the fields of a value record
IsValueRecord(r, type) ==
    /\ r.type = type
    /\ {"key", "value", "times_seen", "first_seen", "last_seen"} \subseteq DOMAIN r

\* C3: the kind of record returned follows from the operation family and the
\* issue scope alone: TagKey / GroupTagKey from key operations, TagValue /
\* GroupTagValue (with key, value, times_seen, first_seen, last_seen) from value
\* operations, the single value lookup included.
C3_RecordKind ==
    Returned =>
        /\ call.op = "get_tag_key" => outcome.value.type = "TagKey"
        /\ call.op = "get_group_tag_key" => outcome.value.type = "GroupTagKey"
        /\ call.op = "get_tag_keys" => \A r \in Records : r.type = "TagKey"
        /\ call.op = "get_group_tag_keys" => \A r \in Records : r.type = "GroupTagKey"
        /\ call.op = "get_tag_value" => IsValueRecord(outcome.value, "TagValue")
        /\ call.op = "get_group_tag_value" => IsValueRecord(outcome.value, "GroupTagValue")
        /\ call.op = "get_tag_values" => \A r \in Records : IsValueRecord(r, "TagValue")
        /\ call.op \in {"get_group_tag_values", "get_top_group_tag_values",
                        "get_group_list_tag_value"} =>
              \A r \in Records : IsValueRecord(r, "GroupTagValue")

\* every identity field of every event user is empty
NoIdentity(event_users) ==
    \A i \in DOMAIN event_users :
        /\ event_users[i].ident = "" /\ event_users[i].email = ""
        /\ event_users[i].username = "" /\ event_users[i].ip_address = ""

\* C4: when all four identity clauses are dropped, the two user operations
\* either issue no query or send a condition no row satisfies; they never send
\* an empty OR-group, which lets every row of the project filter through.
C4_OrGroupNotVacuous ==
    (call.op \in UserOperations /\ NoIdentity(call.event_users)) =>
        \/ sent = <<>>
        \/ \A i \in DOMAIN sent[1].conditions : sent[1].conditions[i] # <<>>

\* the count the engine returned for an issue, 0 when it returned no row
EngineCount(issue) ==
    IF issue \in Range(DictKeys(reply)) THEN ValueOf(Items(reply), issue) ELSE 0

\* C5 as stated: every requested issue id is a key of the mapping that
\* get_groups_user_counts returns, when the mapping is enumerated, with the
\* engine's count or 0.
C5_EveryIssueIsAKey ==
    (call.op = "get_groups_user_counts" /\ Returned /\ DOMAIN lookups = {}) =>
        \A issue \in Range(call.group_ids) :
            /\ issue \in MappingKeys(outcome.value)
            /\ outcome.value.items[issue] = EngineCount(issue)

\* C5 as amended: looking a requested issue id up in the mapping that
\* get_groups_user_counts returns gives a non-negative count, the engine's when
\* the engine returned a row for the issue and 0 when it did not.  The keys of
\* the mapping are the issues the engine returned a row for and the issues
\* looked up since: a requested issue with no row is not a key until it is
\* looked up, and the lookup inserts it with 0.
C5_ZeroFillOnLookup ==
    (call.op = "get_groups_user_counts" /\ Returned) =>
        /\ \A issue \in Range(call.group_ids) :
              /\ MappingGet(outcome.value, issue).result = Return(EngineCount(issue))
              /\ EngineCount(issue) >= 0
        /\ \A issue \in DOMAIN lookups : lookups[issue] = Return(EngineCount(issue))
        /\ MappingKeys(outcome.value) = Range(DictKeys(reply)) \cup DOMAIN lookups
        /\ \A issue \in MappingKeys(outcome.value) :
              outcome.value.items[issue] = EngineCount(issue)

\* a requested issue without a row was looked up, gave 0 and became a key,
\* beside a requested issue with a count
C5_Witness ==
    /\ call.op = "get_groups_user_counts" /\ Returned
    /\ \E issue \in Range(call.group_ids) :
          /\ issue \notin Range(DictKeys(reply))
          /\ issue \in DOMAIN lookups /\ lookups[issue] = Return(0)
          /\ issue \in MappingKeys(outcome.value)
    /\ \E issue \in Range(call.group_ids) : EngineCount(issue) > 0

\* C6: a listing operation never raises a not-found error; on an empty reply it
\* returns an empty collection, and it never returns more records than the
\* engine returned rows.
C6_ListingsNeverNotFound ==
    call.op \in Listings =>
        /\ outcome.kind = "raise" => outcome.exc \notin NotFoundErrors
        /\ reply.kind = "rows" =>
              /\ Returned
              /\ Cardinality(DOMAIN outcome.value) <= Len(reply.rows)
              /\ reply.rows = <<>> => DOMAIN outcome.value = {}

\* an issue-scoped key listing answered an empty reply with an empty list
C6_Witness ==
    /\ call.op = "get_group_tag_keys"
    /\ reply.kind = "rows" /\ reply.rows = <<>>
    /\ Returned /\ outcome.value = <<>>

\* the rows of the reply whose value is not zero, in the reply's order
NonZeroRows == SelectSeq(reply.rows, LAMBDA item : item.v # 0)

\* C7: a key listing asks for descending values_seen and returns the rows with
\* non-zero values_seen in the engine's order, so sorted by descending
\* values_seen with no zero record; get_top_group_tag_values asks for
\* descending times_seen and returns one record per row in the engine's order,
\* so sorted by descending times_seen.
C7_ListingOrder ==
    /\ (call.op \in KeyListings /\ reply.kind = "rows") =>
          /\ sent[1].orderby = "-values_seen"
          /\ Len(outcome.value) = Len(NonZeroRows)
          /\ \A i \in DOMAIN outcome.value :
                /\ outcome.value[i].key = NonZeroRows[i].k
                /\ outcome.value[i].values_seen = NonZeroRows[i].v
                /\ outcome.value[i].values_seen # 0
          /\ \A i, j \in DOMAIN outcome.value :
                i < j => outcome.value[i].values_seen >= outcome.value[j].values_seen
    /\ (call.op = "get_top_group_tag_values" /\ reply.kind = "rows") =>
          /\ sent[1].orderby = "-times_seen"
          /\ Len(outcome.value) = Len(reply.rows)
          /\ \A i \in DOMAIN outcome.value :
                /\ outcome.value[i].value = reply.rows[i].k
                /\ outcome.value[i].times_seen = reply.rows[i].v.times_seen
          /\ \A i, j \in DOMAIN outcome.value :
                i < j => outcome.value[i].times_seen >= outcome.value[j].times_seen

\* a key listing dropped the zero row of a two-row reply
C7_Witness ==
    /\ call.op = "get_tag_keys" /\ reply.kind = "rows"
    /\ Len(reply.rows) = 2 /\ reply.rows[2].v = 0
    /\ Returned /\ Len(outcome.value) = 1

\* C8: every record an issue-scoped operation returns has the group_id passed
\* in, and its query filters on exactly that project, environment and issue;
\* get_group_list_tag_value returns a mapping keyed by the issues the engine
\* returned, each record's group_id being its key.
C8_Scoping ==
    /\ (call.op \in IssueScoped /\ sent # <<>>) =>
          sent[1].filters = [project_id |-> <<call.project_id>>,
                             environment |-> <<call.environment_id>>,
                             issue |-> <<call.group_id>>]
    /\ (call.op \in IssueScoped /\ Returned) =>
          IF call.op \in {"get_group_tag_key", "get_group_tag_value"}
          THEN outcome.value.group_id = call.group_id
          ELSE \A r \in Records : r.group_id = call.group_id
    /\ (call.op = "get_group_list_tag_value" /\ Returned) =>
          /\ DOMAIN outcome.value = Range(DictKeys(reply))
          /\ \A issue \in DOMAIN outcome.value : outcome.value[issue].group_id = issue

\* an issue-scoped value listing returned two records of its issue
C8_Witness ==
    /\ call.op = "get_group_tag_values" /\ Returned
    /\ Len(outcome.value) = 2
    /\ \A r \in Records : r.group_id = call.group_id

\* C9: the query of a key listing carries limit 1000 when the caller passes no
\* limit, for get_tag_keys and for get_group_tag_keys, and the caller's limit
\* when it passes one.
C9_DefaultLimit ==
    (call.op \in KeyListings /\ sent # <<>>) =>
        sent[1].limit =
            IF call.op = "get_group_tag_keys" /\ call.limit # <<>>
            THEN call.limit[1] ELSE DefaultKeysLimit

\* C10: an operation issues at most one query between its invocation and its
\* return or failure; an engine failure reaches the caller as it is, with no
\* second query; get_group_ids_for_search_filter issues none and raises
\* NotImplementedError.
C10_OneQueryPerCall ==
    /\ Len(sent) <= 1
    /\ reply = EngineError => Len(sent) = 1 /\ outcome = Raise("SnubaError")
    /\ call.op = "get_group_ids_for_search_filter" =>
          sent = <<>> /\ outcome = Raise("NotImplementedError")
    /\ Returned /\ call.op # "none" => Len(sent) = 1

\* an engine failure came back after the one query of get_last_release
C10_Witness ==
    /\ call.op = "get_last_release"
    /\ reply = EngineError /\ Len(sent) = 1 /\ outcome = Raise("SnubaError")
====
